---- MODULE Spec2Model ----
(***************************************************************************)
(* Batch orchestration of claude-skill-factory: the submission endpoints   *)
(* (src/api/main.py), the Celery tasks process_skill_batch and             *)
(* process_single_item (src/queue/tasks.py) and the batch bookkeeping of   *)
(* src/db/connection.py over the tables of src/db/models.py, the           *)
(* completion notifier notify_completion (src/queue/tasks.py), the status  *)
(* endpoint GET /batch/{batch_id} and the skill pipeline BaseSkill.run     *)
(* (src/skills/base.py).                                                   *)
(*                                                                         *)
(* The database is PostgreSQL (connection.py:13): every update_batch_item  *)
(* runs in one transaction whose writes become visible at commit; the      *)
(* UPDATE of the batch_jobs row takes that row's lock until the            *)
(* transaction ends.  The broker delivers at least once                    *)
(* (celery_app.py:29-31: task_acks_late, task_reject_on_worker_lost): a    *)
(* worker lost while it executes an item task has the message delivered    *)
(* again.                                                                  *)
(***************************************************************************)
EXTENDS Integers, Sequences, FiniteSets, TLC

\* ---- bounds of the model -------------------------------------------------
\* batches submitted (uuid4 batch ids are modelled as 1, 2, ...)
MaxBatches == 1
\* inputs over all submissions
MaxInputs == 2
\* workers lost while executing an item task or a notifier check
MaxLost == 1
\* inputs of a batch submitted together with the notifier
MaxNotifyInputs == 1
\* lines of a response text of the completion provider
MaxLines == 3

\* ---- program constants ---------------------------------------------------
\* @celery_app.task(bind=True, max_retries=5, ...) of process_single_item
MAX_RETRIES == 5
\* countdown=30 * (self.request.retries + 1)
RATE_LIMIT_STEP == 30
\* countdown=10
API_ERROR_COUNTDOWN == 10
\* notify_completion.apply_async(..., countdown=10) in process_skill_batch
FIRST_CHECK_COUNTDOWN == 10
\* notify_completion.apply_async(..., countdown=30) in notify_completion
RECHECK_COUNTDOWN == 30

\* BatchStatus
QUEUED == "queued"
PROCESSING == "processing"
COMPLETED == "completed"
FAILED == "failed"
BatchStatus == {QUEUED, PROCESSING, COMPLETED, FAILED}

\* SkillErrorType
VALIDATION_INPUT == "validation_input"
VALIDATION_OUTPUT == "validation_output"
API_ERROR == "api_error"
RATE_LIMIT == "rate_limit"
TIMEOUT == "timeout"
CONFIDENCE_LOW == "confidence_low"
SOURCE_NOT_FOUND == "source_not_found"
SkillErrorType ==
  {VALIDATION_INPUT, VALIDATION_OUTPUT, API_ERROR, RATE_LIMIT, TIMEOUT,
   CONFIDENCE_LOW, SOURCE_NOT_FOUND}

\* SKILL_REGISTRY: skill_name -> skill instance (only the names matter here)
SKILL_REGISTRY == {"url_summarizer"}
\* the skill names a submission may carry
SkillNames == {"url_summarizer", "no_such_skill"}

\* a lookup that finds every name
get_skill_unchecked(name) == name

\* get_skill(name): SKILL_REGISTRY.get(name), None when the name is missing
get_skill(name) == IF name \in SKILL_REGISTRY THEN name ELSE "None"

Batches == 1..MaxBatches
Idx == 0..(MaxInputs - 1)
\* item_id = f"{batch_id}:{i}"
ItemIds == Batches \X Idx

\* ---- rows and values -----------------------------------------------------
\* SkillResult, reduced to the fields the orchestration reads
SkillResult(success, error_type) ==
  [success |-> success, error_type |-> error_type]
NoResult == SkillResult(FALSE, "unset")
\* what skill.run may return to process_single_item
Outcomes ==
  {SkillResult(TRUE, "null")} \cup {SkillResult(FALSE, e) : e \in SkillErrorType}

\* a batch_jobs row (BatchJob); id = 0 stands for "no row"
BatchJob(id, status, total_items) ==
  [id |-> id, status |-> status, total_items |-> total_items,
   completed_items |-> 0, failed_items |-> 0]
NoJob == BatchJob(0, "null", 0)

\* a batch_items row (BatchItem); success and error_type are nullable
BatchItem(exists) ==
  [exists |-> exists, success |-> "null", error_type |-> "null",
   processed_at |-> FALSE]
NoItem == BatchItem(FALSE)

\* a process_single_item message / execution
NoTask ==
  [pc |-> "none", retries |-> 0, countdown |-> 0, cause |-> "null",
   result |-> NoResult, row |-> NoJob, job |-> NoJob]

\* a process_skill_batch message / execution
NoBatchTask ==
  [pc |-> "none", skill_name |-> "None", n |-> 0, i |-> 0, webhook_url |-> "None"]

\* BatchSubmission.webhook_url: str | None
WebhookUrls == {"None", "https://callback"}

\* get_batch_status of a batch that has no row: None
NoStatus == [found |-> FALSE, status |-> "null", total |-> 0, completed |-> 0,
             failed |-> 0]

\* the json body notify_completion posts to the webhook
Payload(status) ==
  [status |-> "completed", total |-> status.total,
   completed |-> status.completed, failed |-> status.failed]
NoPayload == [status |-> "null", total |-> 0, completed |-> 0, failed |-> 0]

\* the notify_completion messages of a batch: those waiting in the queue, the
\* countdown of the one scheduled last, the POSTs made to the webhook, the
\* json body of the last one and whether a failed POST was printed
NoNotify ==
  [pending |-> 0, countdown |-> 0, deliveries |-> 0, payload |-> NoPayload,
   logged |-> FALSE]

\* history of an item: the committed increments of completed_items and of
\* failed_items that update_batch_item made for it, what skill.run returned
\* last, and whether a retry was ever scheduled for it
NoHist == [completed |-> 0, failed |-> 0, last |-> NoResult, retried |-> FALSE]

\* SkillResult with the fields BaseSkill.run reads and writes; output is None,
\* the empty dict, a dict that passes the output schema or one that fails it
Result(success, output, error_type, tokens_used, latency_ms) ==
  [success |-> success, output |-> output, error_type |-> error_type,
   tokens_used |-> tokens_used, latency_ms |-> latency_ms]
Outputs == {"None", "empty", "valid", "invalid"}
\* tokens_used and latency_ms as execute may set them (0 is the default)
TokenCounts == {0, 7}
Latencies == {0, 3}
\* int((time.time() - start) * 1000) as run may measure it
Elapsed == {0, 12}
\* what execute may return
ExecuteOutcomes ==
  {Result(ok, o, e, t, l) :
     ok \in BOOLEAN, o \in Outputs,
     e \in {"null", VALIDATION_OUTPUT, API_ERROR, RATE_LIMIT, TIMEOUT},
     t \in TokenCounts, l \in Latencies}
NullResult == Result(FALSE, "None", "unset", 0, 0)

\* a line of response.content[0].text: one that starts with ```, one that
\* holds other text, an empty one
LineKinds == {"fence", "content", "blank"}
\* response.content[0].text.strip() as its lines: the empty text, or lines of
\* which the first and the last are not blank
ResponseTexts ==
  {<<"blank">>} \cup
  {t \in UNION {[1..n -> LineKinds] : n \in 1..MaxLines} :
     t[1] # "blank" /\ t[Len(t)] # "blank"}
\* what client.get(url) does: a response, httpx.TimeoutException, another
\* httpx.HTTPError
FetchEvents == {"ok", "TimeoutException", "HTTPError"}
\* what client.messages.create does: a response, or an exception of the
\* anthropic SDK (RateLimitError on 429, APITimeoutError when the request
\* times out, APIStatusError on another status)
ProviderEvents == {"ok", "RateLimitError", "APITimeoutError", "APIStatusError"}
\* what UrlSummarizerSkill.execute meets: the fetch, the provider call, the
\* response text, whether its non-fence lines are a JSON document, whether
\* that document passes the output schema, and the tokens of response.usage
Envs ==
  [fetch : FetchEvents, provider : ProviderEvents, text : ResponseTexts,
   well_formed : BOOLEAN, schema_ok : BOOLEAN, tokens : TokenCounts]
NoEnv ==
  [fetch |-> "ok", provider |-> "ok", text |-> <<"blank">>,
   well_formed |-> FALSE, schema_ok |-> FALSE, tokens |-> 0]

\* one call of BaseSkill.run: where it is, whether raw_input passes the input
\* schema, what execute returns, the time run measures, the local
\* skill_result, the value returned and the methods called so far; for the
\* reference skill, what execute meets and the text handed to json.loads
NoCall ==
  [pc |-> "none", raw_valid |-> FALSE, execute |-> NullResult, elapsed |-> 0,
   skill_result |-> NullResult, result |-> NullResult, calls |-> {},
   env |-> NoEnv, raw_text |-> <<>>]

VARIABLES
  response,   \* the last response of a submission endpoint
  batch,      \* batch id -> its process_skill_batch message / execution
  jobs,       \* batch id -> committed batch_jobs row
  items,      \* item id -> committed batch_items row
  task,       \* item id -> its process_single_item message / execution
  lost,       \* worker losses so far
  hist,       \* item id -> history (not program state)
  notify,     \* batch id -> its notify_completion messages and deliveries
  skill       \* one call of BaseSkill.run

vars == <<response, batch, jobs, items, task, lost, hist, notify, skill>>

Init ==
  /\ response = [status_code |-> 0, batch_id |-> 0, item_count |-> 0]
  /\ batch = [b \in Batches |-> NoBatchTask]
  /\ jobs = [b \in Batches |-> NoJob]
  /\ items = [id \in ItemIds |-> NoItem]
  /\ task = [id \in ItemIds |-> NoTask]
  /\ lost = 0
  /\ hist = [id \in ItemIds |-> NoHist]
  /\ notify = [b \in Batches |-> NoNotify]
  /\ skill = NoCall

\* ---- submission (src/api/main.py) ----------------------------------------
\* batch ids are handed out in order: the batches submitted so far
RECURSIVE NumSubmitted(_)
NumSubmitted(b) ==
  IF b = 0 THEN 0
  ELSE IF batch[b].pc # "none" THEN b ELSE NumSubmitted(b - 1)
\* the inputs of batches 1..b
RECURSIVE InputsSubmitted(_)
InputsSubmitted(b) == IF b = 0 THEN 0 ELSE batch[b].n + InputsSubmitted(b - 1)
\* room left within the bounds for a submission of n inputs
Room(n) ==
  /\ NumSubmitted(MaxBatches) < MaxBatches
  /\ InputsSubmitted(MaxBatches) + n <= MaxInputs
\* batch_id = str(uuid.uuid4()): an id no batch has yet
NewBatchId == NumSubmitted(MaxBatches) + 1

\* process_skill_batch.delay(batch_id, skill_name, inputs, webhook_url)
Enqueue(batch_id, skill_name, n, webhook_url) ==
  /\ batch' = [batch EXCEPT ![batch_id] =
                 [pc |-> "queued", skill_name |-> skill_name, n |-> n, i |-> 0,
                  webhook_url |-> webhook_url]]
  /\ response' = [status_code |-> 200, batch_id |-> batch_id, item_count |-> n]

Reject ==
  /\ response' = [status_code |-> 400, batch_id |-> 0, item_count |-> 0]
  /\ UNCHANGED batch

\* POST /batch
submit_batch(skill_name, n, webhook_url) ==
  /\ Room(n)
  /\ IF skill_name \notin SKILL_REGISTRY
       THEN Reject
       ELSE Enqueue(NewBatchId, skill_name, n, webhook_url)
  /\ UNCHANGED <<jobs, items, task, lost, hist, notify, skill>>

\* POST /batch/csv/{skill_name}
submit_csv_batch(skill_name, n) ==
  /\ Room(n)
  /\ IF skill_name \notin SKILL_REGISTRY
       THEN Reject
       ELSE IF n = 0
         THEN Reject
         ELSE Enqueue(NewBatchId, skill_name, n, "None")
  /\ UNCHANGED <<jobs, items, task, lost, hist, notify, skill>>

\* ---- process_skill_batch (src/queue/tasks.py) ----------------------------
\* create_batch_job: one committed INSERT
create_batch_job(batch_id, total_items) ==
  jobs' = [jobs EXCEPT ![batch_id] = BatchJob(batch_id, PROCESSING, total_items)]

\* create_batch_item: one committed INSERT
create_batch_item(item_id) ==
  items' = [items EXCEPT ![item_id] = BatchItem(TRUE)]

\* get_skill, then create_batch_job
psb_create_job(b) ==
  /\ batch[b].pc = "queued"
  /\ IF get_skill(batch[b].skill_name) = "None"
       THEN /\ batch' = [batch EXCEPT ![b].pc = "failed"]
            /\ UNCHANGED jobs
       ELSE /\ create_batch_job(b, batch[b].n)
            /\ batch' = [batch EXCEPT ![b].pc = "items"]
  /\ UNCHANGED <<response, items, task, lost, hist, notify, skill>>

\* one turn of the loop over enumerate(inputs)
psb_create_item(b) ==
  /\ batch[b].pc = "items"
  /\ batch[b].i < batch[b].n
  /\ create_batch_item(<<b, batch[b].i>>)
  /\ batch' = [batch EXCEPT ![b].i = @ + 1]
  /\ UNCHANGED <<response, jobs, task, lost, hist, notify, skill>>

\* the item tasks sent before the loop over the inputs has ended
psb_dispatch_early(b) ==
  /\ batch[b].pc = "items"
  /\ task' = [id \in ItemIds |->
                IF id[1] = b /\ id[2] < batch[b].n
                  THEN [NoTask EXCEPT !.pc = "queued"]
                  ELSE task[id]]
  /\ batch' = [batch EXCEPT ![b].pc = "done"]
  /\ UNCHANGED <<response, jobs, items, lost, hist, notify, skill>>

\* group(tasks).apply_async(); if webhook_url:
\* notify_completion.apply_async(args=[batch_id, webhook_url], countdown=10);
\* return
psb_dispatch(b) ==
  /\ batch[b].pc = "items"
  /\ batch[b].i = batch[b].n
  /\ task' = [id \in ItemIds |->
                IF id[1] = b /\ id[2] < batch[b].n
                  THEN [NoTask EXCEPT !.pc = "queued"]
                  ELSE task[id]]
  /\ notify' = [notify EXCEPT ![b] =
       IF batch[b].webhook_url # "None"
         THEN [@ EXCEPT !.pending = @ + 1, !.countdown = FIRST_CHECK_COUNTDOWN]
         ELSE @]
  /\ batch' = [batch EXCEPT ![b].pc = "done"]
  /\ UNCHANGED <<response, jobs, items, lost, hist, skill>>

\* ---- process_single_item (src/queue/tasks.py) ----------------------------
BatchOf(item_id) == item_id[1]
ItemsOf(b) == {id \in ItemIds : id[1] = b}

\* the two conditions under which process_single_item raises self.retry
IsRateLimited(result) == ~result.success /\ result.error_type = RATE_LIMIT
\* a timeout taken for a transient provider failure
IsApiErrorOrTimeout(result) ==
  ~result.success /\ result.error_type \in {API_ERROR, TIMEOUT}
IsApiError(result) == ~result.success /\ result.error_type = API_ERROR

\* the backoff with the retry count taken before it is advanced
RateLimitCountdownOffByOne(retries) == RATE_LIMIT_STEP * retries

\* countdown=30 * (self.request.retries + 1)
RateLimitCountdown(retries) == RATE_LIMIT_STEP * (retries + 1)

\* the cap compared one retry too late
RetriesExhaustedLate(retries) == retries > MAX_RETRIES

\* Task.retry at request.retries with max_retries: past the cap it raises exc
RetriesExhausted(retries) == retries + 1 > MAX_RETRIES

\* values(completed_items=BatchJob.completed_items + 1) or failed_items + 1
IncrementCounter(row, success) ==
  IF success
    THEN [row EXCEPT !.completed_items = @ + 1]
    ELSE [row EXCEPT !.failed_items = @ + 1]

\* the batch_items row as the first statement of update_batch_item leaves it
UpdatedItem(row, result) ==
  [row EXCEPT !.success = IF result.success THEN "true" ELSE "false",
              !.error_type = result.error_type,
              !.processed_at = TRUE]

\* the outcome stored before the retry is raised
retryAfterStore(item_id, countdown, cause) ==
  /\ task' = [task EXCEPT ![item_id] =
       IF RetriesExhausted(task[item_id].retries)
         THEN [NoTask EXCEPT !.pc = "failed"]
         ELSE [@ EXCEPT !.retries = @ + 1, !.countdown = countdown,
                        !.cause = cause]]
  /\ items' = [items EXCEPT ![item_id] =
       UpdatedItem(@, SkillResult(FALSE, cause))]
  /\ jobs' = [jobs EXCEPT ![item_id[1]] = IncrementCounter(@, FALSE)]

\* raise self.retry(exc=..., countdown=...): a new message for the same item
\* with retries + 1, or, past max_retries, exc itself: the task fails and
\* nothing is stored
retry(item_id, countdown, cause) ==
  /\ task' = [task EXCEPT ![item_id] =
       IF RetriesExhausted(task[item_id].retries)
         THEN [NoTask EXCEPT !.pc = "failed"]
         ELSE [@ EXCEPT !.retries = @ + 1, !.countdown = countdown,
                        !.cause = cause]]
  /\ UNCHANGED <<jobs, items>>

\* update_batch_item, first statement: UPDATE batch_items ... WHERE id = item_id
\* (pending in the transaction until commit)
ubi_begin(item_id, result) ==
  /\ task' = [task EXCEPT ![item_id] =
       [NoTask EXCEPT !.pc = "itemWritten", !.retries = task[item_id].retries,
                      !.result = result]]
  /\ UNCHANGED <<jobs, items>>

\* one execution of process_single_item up to the first statement of
\* update_batch_item; result is what skill.run returned
process_single_item(item_id, result) ==
  /\ task[item_id].pc = "queued"
  /\ get_skill(batch[BatchOf(item_id)].skill_name) # "None"
  /\ IF IsRateLimited(result)
       THEN retry(item_id, RateLimitCountdown(task[item_id].retries), RATE_LIMIT)
       ELSE IF IsApiError(result)
         THEN retry(item_id, API_ERROR_COUNTDOWN, API_ERROR)
         ELSE ubi_begin(item_id, result)
  /\ hist' = [hist EXCEPT
       ![item_id].last = result,
       ![item_id].retried = @ \/ task'[item_id].retries > task[item_id].retries]
  /\ UNCHANGED <<response, batch, lost, notify, skill>>

\* ---- update_batch_item (src/db/connection.py) ----------------------------
InLockedSection(id) == task[id].pc \in {"incremented", "read", "checked"}

\* no row lock: the counter is read and written back without one
RowNeverLocked(b, item_id) == FALSE

\* another transaction has updated the batch_jobs row of b and not yet ended
RowLocked(b, item_id) ==
  \E other \in ItemsOf(b) \ {item_id} : InLockedSection(other)

\* UPDATE batch_jobs SET <counter> = <counter> + 1 WHERE id = batch_id: waits
\* for the row lock, then works on the committed row
ubi_increment(item_id) ==
  LET b == BatchOf(item_id) IN
  /\ task[item_id].pc = "itemWritten"
  /\ ~RowLocked(b, item_id)
  /\ task' = [task EXCEPT
       ![item_id].pc = "incremented",
       ![item_id].row = IF jobs[b].id = 0 THEN NoJob
                        ELSE IncrementCounter(jobs[b], task[item_id].result.success)]
  /\ UNCHANGED <<response, batch, jobs, items, lost, hist, notify, skill>>

\* job = select(BatchJob).where(id == batch_id).scalar_one_or_none(): the
\* transaction reads its own version of the row
ubi_select(item_id) ==
  /\ task[item_id].pc = "incremented"
  /\ task' = [task EXCEPT ![item_id].pc = "read", ![item_id].job = task[item_id].row]
  /\ UNCHANGED <<response, batch, jobs, items, lost, hist, notify, skill>>

\* job and (job.completed_items + job.failed_items) >= job.total_items
BatchComplete(job) ==
  job.id # 0 /\ job.completed_items + job.failed_items >= job.total_items

\* if ...: UPDATE batch_jobs SET status = 'completed'
ubi_check(item_id) ==
  /\ task[item_id].pc = "read"
  /\ task' = [task EXCEPT
       ![item_id].pc = "checked",
       ![item_id].row = IF BatchComplete(task[item_id].job)
                          THEN [@ EXCEPT !.status = COMPLETED]
                          ELSE @]
  /\ UNCHANGED <<response, batch, jobs, items, lost, hist, notify, skill>>

\* session.commit(): the pending item and job rows become the committed ones
commit(item_id) ==
  LET b == BatchOf(item_id) IN
  /\ items' = [items EXCEPT ![item_id] =
       IF @.exists THEN UpdatedItem(@, task[item_id].result) ELSE @]
  /\ jobs' = [jobs EXCEPT ![b] =
       IF task[item_id].row.id = 0 THEN @ ELSE task[item_id].row]

\* history: one more committed increment made for the item
Credited(h, result) ==
  IF result.success
    THEN [h EXCEPT !.completed = @ + 1]
    ELSE [h EXCEPT !.failed = @ + 1]

\* commit, return, and the late acknowledgement of the message
ubi_commit(item_id) ==
  /\ task[item_id].pc = "checked"
  /\ commit(item_id)
  /\ task' = [task EXCEPT ![item_id] = [NoTask EXCEPT !.pc = "acked"]]
  /\ hist' = [hist EXCEPT ![item_id] = Credited(@, task[item_id].result)]
  /\ UNCHANGED <<response, batch, lost, notify, skill>>

\* ---- worker loss (src/queue/celery_app.py: acks_late, reject_on_worker_lost)
\* the message of a lost execution goes back to the queue with the retry
\* count it was delivered with
Redelivered(t) == [NoTask EXCEPT !.pc = "queued", !.retries = t.retries]

\* the worker is lost inside update_batch_item: the transaction is rolled back
worker_lost(item_id) ==
  /\ lost < MaxLost
  /\ task[item_id].pc \in {"itemWritten", "incremented", "read", "checked"}
  /\ task' = [task EXCEPT ![item_id] = Redelivered(@)]
  /\ lost' = lost + 1
  /\ UNCHANGED <<response, batch, jobs, items, hist, notify, skill>>

\* the worker is lost after the commit and before the acknowledgement
worker_lost_after_commit(item_id) ==
  /\ lost < MaxLost
  /\ task[item_id].pc = "checked"
  /\ commit(item_id)
  /\ task' = [task EXCEPT ![item_id] = Redelivered(@)]
  /\ hist' = [hist EXCEPT ![item_id] = Credited(@, task[item_id].result)]
  /\ lost' = lost + 1
  /\ UNCHANGED <<response, batch, notify, skill>>

\* ---- status queries (src/db/connection.py, src/api/main.py) ---------------
\* get_batch_status of connection.py: the committed batch_jobs row as a dict,
\* or None
get_batch_status(batch_id) ==
  IF jobs[batch_id].id = 0
    THEN NoStatus
    ELSE [found |-> TRUE, status |-> jobs[batch_id].status,
          total |-> jobs[batch_id].total_items,
          completed |-> jobs[batch_id].completed_items,
          failed |-> jobs[batch_id].failed_items]

\* GET /batch/{batch_id}: get_batch_status of main.py, the response it gives
\* in the current state (it changes nothing)
get_batch_status_endpoint(batch_id) ==
  LET status == get_batch_status(batch_id) IN
  IF ~status.found
    THEN [status_code |-> 404, status |-> "null", total |-> 0, completed |-> 0,
          failed |-> 0]
    ELSE [status_code |-> 200, status |-> status.status, total |-> status.total,
          completed |-> status.completed, failed |-> status.failed]

\* get_batch_results: the committed batch_items rows of the batch, by item id
get_batch_results(batch_id) ==
  [id \in {i \in ItemsOf(batch_id) : items[i].exists} |-> items[id]]

\* ---- notify_completion (src/queue/tasks.py) ------------------------------
\* the body of notify_completion; ok is whether client.post succeeded, acked
\* is whether the message is acknowledged afterwards
notify_body(b, ok, acked) ==
  LET status == get_batch_status(b)
      left == IF acked THEN notify[b].pending - 1 ELSE notify[b].pending IN
  notify' = [notify EXCEPT ![b] =
    IF status.found /\ status.status = COMPLETED
      THEN [@ EXCEPT !.pending = left, !.deliveries = @ + 1,
                     !.payload = Payload(status), !.logged = @ \/ ~ok]
      ELSE [@ EXCEPT !.pending = left + 1, !.countdown = RECHECK_COUNTDOWN]]

\* one execution of notify_completion
notify_completion(b, ok) ==
  /\ notify[b].pending >= 1
  /\ notify_body(b, ok, TRUE)
  /\ UNCHANGED <<response, batch, jobs, items, task, lost, hist, skill>>

\* the worker is lost at the end of notify_completion, before the late
\* acknowledgement: the message goes back to the queue
notify_completion_lost(b, ok) ==
  /\ lost < MaxLost
  /\ notify[b].pending >= 1
  /\ notify_body(b, ok, FALSE)
  /\ lost' = lost + 1
  /\ UNCHANGED <<response, batch, jobs, items, task, hist, skill>>

\* a process_skill_batch message published to the broker by a producer other
\* than the submission endpoints
send_process_skill_batch(skill_name, n, webhook_url) ==
  /\ Room(n)
  /\ batch' = [batch EXCEPT ![NewBatchId] =
                 [pc |-> "queued", skill_name |-> skill_name, n |-> n, i |-> 0,
                  webhook_url |-> webhook_url]]
  /\ UNCHANGED <<response, jobs, items, task, lost, hist, notify, skill>>

\* ---- BaseSkill.run (src/skills/base.py) -----------------------------------
\* bool(output) of a dict | None
Truthy(output) == output \notin {"None", "empty"}

\* validate_input(raw_input)[0]
validate_input(call) == call.raw_valid

\* validate_output(data)[0]: model_validate against the output schema
validate_output(data) == data = "valid"

\* the SkillResult of lines 110-117
OutputValidationFailure(skill_result) ==
  Result(FALSE, skill_result.output, VALIDATION_OUTPUT, skill_result.tokens_used,
         skill_result.latency_ms)

\* the failure stamped with the time spent validating
InputValidationFailureTimed(call) ==
  Result(FALSE, "None", VALIDATION_INPUT, 0, call.elapsed)

\* the SkillResult of lines 95-100: tokens_used and latency_ms keep their
\* defaults
InputValidationFailure(call) == Result(FALSE, "None", VALIDATION_INPUT, 0, 0)

UnchangedByRun == <<response, batch, jobs, items, task, lost, hist, notify>>

\* is_valid, result = self.validate_input(raw_input); if not is_valid: return
run_validate_input ==
  /\ skill.pc = "start"
  /\ skill' =
       IF ~validate_input(skill)
         THEN [skill EXCEPT !.pc = "returned",
                            !.calls = @ \cup {"validate_input"},
                            !.result = InputValidationFailure(skill)]
         ELSE [skill EXCEPT !.pc = "execute",
                            !.calls = @ \cup {"validate_input"}]
  /\ UNCHANGED UnchangedByRun

\* skill_result = await self.execute(result);
\* skill_result.latency_ms = int((time.time() - start) * 1000)
run_execute ==
  /\ skill.pc = "execute"
  /\ skill' = [skill EXCEPT
       !.pc = "validate_output",
       !.calls = @ \cup {"execute"},
       !.skill_result = [skill.execute EXCEPT !.latency_ms = skill.elapsed]]
  /\ UNCHANGED UnchangedByRun

\* if skill_result.success and skill_result.output: validate, and return the
\* failure or skill_result
run_validate_output ==
  /\ skill.pc = "validate_output"
  /\ skill' =
       IF skill.skill_result.success /\ Truthy(skill.skill_result.output)
         THEN [skill EXCEPT
                 !.pc = "returned",
                 !.calls = @ \cup {"validate_output"},
                 !.result = IF ~validate_output(skill.skill_result.output)
                              THEN OutputValidationFailure(skill.skill_result)
                              ELSE skill.skill_result]
         ELSE [skill EXCEPT !.pc = "returned", !.result = skill.skill_result]
  /\ UNCHANGED UnchangedByRun

\* a call of run on any raw input, with any outcome of execute
RunInit ==
  /\ response = [status_code |-> 0, batch_id |-> 0, item_count |-> 0]
  /\ batch = [b \in Batches |-> NoBatchTask]
  /\ jobs = [b \in Batches |-> NoJob]
  /\ items = [id \in ItemIds |-> NoItem]
  /\ task = [id \in ItemIds |-> NoTask]
  /\ lost = 0
  /\ hist = [id \in ItemIds |-> NoHist]
  /\ notify = [b \in Batches |-> NoNotify]
  /\ skill \in {[NoCall EXCEPT !.pc = "start", !.raw_valid = v, !.execute = x,
                                !.elapsed = t] :
                  v \in BOOLEAN, x \in ExecuteOutcomes, t \in Elapsed}

\* ---- call_claude_structured (src/skills/claude_client.py) -----------------
\* raw_text.startswith("```")
StartsWithFence(lines) == lines[1] = "fence"

\* lines = raw_text.split("\n"); raw_text = "\n".join(lines[1:-1])
strip_code_block(lines) ==
  IF StartsWithFence(lines) THEN SubSeq(lines, 2, Len(lines) - 1) ELSE lines

\* the lines of a text that do not start with ```
NonFence(lines) == SelectSeq(lines, LAMBDA l : l # "fence")

\* json.loads(raw_text) returns: the text holds no fence line and its lines
\* are those of the JSON document the response carries
json_loads(env, raw_text) ==
  /\ env.well_formed
  /\ raw_text = NonFence(env.text)
  /\ \E i \in 1..Len(raw_text) : raw_text[i] = "content"

\* the class hierarchy of the anthropic SDK: RateLimitError is an
\* APIStatusError, APITimeoutError is an APIConnectionError, and both of
\* these are APIError
IsRateLimitError(e) == e = "RateLimitError"
IsAPIError(e) == e \in {"RateLimitError", "APITimeoutError", "APIStatusError"}

\* a provider failure returned without a classification
ProviderFailureUnclassified(e) == Result(FALSE, "None", "null", 0, 0)

\* except anthropic.RateLimitError / except anthropic.APIError
ProviderFailure(e) ==
  IF IsRateLimitError(e)
    THEN Result(FALSE, "None", RATE_LIMIT, 0, 0)
    ELSE Result(FALSE, "None", API_ERROR, 0, 0)

\* call_claude_structured: the SkillResult it returns
call_claude_structured(env) ==
  IF IsAPIError(env.provider)
    THEN ProviderFailure(env.provider)
    ELSE IF ~json_loads(env, strip_code_block(env.text))
      THEN Result(FALSE, "invalid", VALIDATION_OUTPUT, env.tokens, 0)
      ELSE IF env.schema_ok
        THEN Result(TRUE, "valid", "null", env.tokens, 0)
        ELSE Result(FALSE, "invalid", VALIDATION_OUTPUT, env.tokens, 0)

\* ---- UrlSummarizerSkill.execute (src/skills/url_summarizer.py) ------------
execute(env) ==
  IF env.fetch = "TimeoutException"
    THEN Result(FALSE, "None", TIMEOUT, 0, 0)
    ELSE IF env.fetch = "HTTPError"
      THEN Result(FALSE, "None", SOURCE_NOT_FOUND, 0, 0)
      ELSE call_claude_structured(env)

\* skill_result = await self.execute(result) of the reference skill;
\* skill_result.latency_ms = int((time.time() - start) * 1000)
run_execute_url_summarizer ==
  /\ skill.pc = "execute"
  /\ skill' = [skill EXCEPT
       !.pc = "validate_output",
       !.calls = @ \cup {"execute"},
       !.raw_text = IF skill.env.fetch = "ok" /\ skill.env.provider = "ok"
                      THEN strip_code_block(skill.env.text) ELSE <<>>,
       !.skill_result = [execute(skill.env) EXCEPT !.latency_ms = skill.elapsed]]
  /\ UNCHANGED UnchangedByRun

\* a call of run of the reference skill on any raw input, whatever the fetch
\* and the provider do
SkillInit ==
  /\ response = [status_code |-> 0, batch_id |-> 0, item_count |-> 0]
  /\ batch = [b \in Batches |-> NoBatchTask]
  /\ jobs = [b \in Batches |-> NoJob]
  /\ items = [id \in ItemIds |-> NoItem]
  /\ task = [id \in ItemIds |-> NoTask]
  /\ lost = 0
  /\ hist = [id \in ItemIds |-> NoHist]
  /\ notify = [b \in Batches |-> NoNotify]
  /\ skill \in {[NoCall EXCEPT !.pc = "start", !.raw_valid = v, !.env = e,
                                !.elapsed = t] :
                  v \in BOOLEAN, e \in Envs, t \in Elapsed}

SkillNext ==
  \/ run_validate_input
  \/ run_execute_url_summarizer
  \/ run_validate_output

SkillSpec == SkillInit /\ [][SkillNext]_vars

RunNext ==
  \/ run_validate_input
  \/ run_execute
  \/ run_validate_output

RunSpec == RunInit /\ [][RunNext]_vars

Next ==
  \/ \E s \in SkillNames, n \in 0..MaxInputs : submit_batch(s, n, "None")
  \/ \E s \in SkillNames, n \in 0..MaxInputs : submit_csv_batch(s, n)
  \/ \E b \in Batches : psb_create_job(b)
  \/ \E b \in Batches : psb_create_item(b)
  \/ \E b \in Batches : psb_dispatch(b)
  \/ \E id \in ItemIds, r \in Outcomes : process_single_item(id, r)
  \/ \E id \in ItemIds : ubi_increment(id)
  \/ \E id \in ItemIds : ubi_select(id)
  \/ \E id \in ItemIds : ubi_check(id)
  \/ \E id \in ItemIds : ubi_commit(id)
  \/ \E id \in ItemIds : worker_lost(id)
  \/ \E id \in ItemIds : worker_lost_after_commit(id)

Spec == Init /\ [][Next]_vars

\* batches with a callback: every producer, the notifier and its losses
NotifyNext ==
  \/ \E s \in SkillNames, n \in 0..MaxNotifyInputs, w \in WebhookUrls :
       submit_batch(s, n, w)
  \/ \E s \in SkillNames, n \in 0..MaxNotifyInputs : submit_csv_batch(s, n)
  \/ \E s \in SkillNames, n \in 0..MaxNotifyInputs, w \in WebhookUrls :
       send_process_skill_batch(s, n, w)
  \/ \E b \in Batches : psb_create_job(b)
  \/ \E b \in Batches : psb_create_item(b)
  \/ \E b \in Batches : psb_dispatch(b)
  \/ \E id \in ItemIds, r \in Outcomes : process_single_item(id, r)
  \/ \E id \in ItemIds : ubi_increment(id)
  \/ \E id \in ItemIds : ubi_select(id)
  \/ \E id \in ItemIds : ubi_check(id)
  \/ \E id \in ItemIds : ubi_commit(id)
  \/ \E id \in ItemIds : worker_lost(id)
  \/ \E id \in ItemIds : worker_lost_after_commit(id)
  \/ \E b \in Batches, ok \in BOOLEAN : notify_completion(b, ok)
  \/ \E b \in Batches, ok \in BOOLEAN : notify_completion_lost(b, ok)

NotifySpec == Init /\ [][NotifyNext]_vars

\* ---- properties ----------------------------------------------------------
HasJob(b) == jobs[b].id # 0
Counted(b) == jobs[b].completed_items + jobs[b].failed_items
UpdateSteps == {"itemWritten", "incremented", "read", "checked"}
TerminalErrors ==
  {VALIDATION_INPUT, VALIDATION_OUTPUT, TIMEOUT, CONFIDENCE_LOW, SOURCE_NOT_FOUND}
RetryableErrors == {RATE_LIMIT, API_ERROR}

\* the increments committed for the items 0..k-1 of batch b
RECURSIVE CreditedCompleted(_, _)
CreditedCompleted(b, k) ==
  IF k = 0 THEN 0 ELSE hist[<<b, k - 1>>].completed + CreditedCompleted(b, k - 1)
RECURSIVE CreditedFailed(_, _)
CreditedFailed(b, k) ==
  IF k = 0 THEN 0 ELSE hist[<<b, k - 1>>].failed + CreditedFailed(b, k - 1)

\* C1: in every state and for every batch,
\* completed_items + failed_items <= total_items.
C1_CountersWithinTotal ==
  \A b \in Batches : HasJob(b) => Counted(b) <= jobs[b].total_items

\* C2: in every committed state of every batch, status is Completed if and
\* only if completed_items + failed_items = total_items, a batch of 0 items
\* included.
C2_CompletedIffAllCounted ==
  \A b \in Batches :
    HasJob(b) => (jobs[b].status = COMPLETED <=> Counted(b) = jobs[b].total_items)

\* C3: the status of a batch never moves back from Completed, and once a batch
\* is Completed its row (status, completed_items, failed_items) never changes.
C3_CompletedIsFinal ==
  [][\A b \in Batches : jobs[b].status = COMPLETED => jobs'[b] = jobs[b]]_vars

\* C4: whatever the interleaving of concurrent update_batch_item transactions
\* of one batch, every committed increment is in the counters (none is lost),
\* and the batch is Completed exactly when the committed updates have brought
\* completed_items + failed_items to total_items.
C4_NoLostUpdate ==
  \A b \in Batches :
    HasJob(b) =>
      /\ jobs[b].completed_items = CreditedCompleted(b, MaxInputs)
      /\ jobs[b].failed_items = CreditedFailed(b, MaxInputs)
      /\ (Counted(b) >= 1 /\ Counted(b) >= jobs[b].total_items
            => jobs[b].status = COMPLETED)
      /\ (jobs[b].status = COMPLETED
            => Counted(b) >= 1 /\ Counted(b) >= jobs[b].total_items)

\* two transactions of one batch inside update_batch_item at once: one waits
\* for the row lock the other holds
C4_Witness ==
  \E id1 \in ItemIds, id2 \in ItemIds :
    /\ id1 # id2 /\ BatchOf(id1) = BatchOf(id2)
    /\ task[id1].pc = "checked" /\ task[id1].row.status = PROCESSING
    /\ task[id2].pc = "itemWritten"

\* C5: an item whose every attempt is RateLimited or ApiError until the retry
\* cap is exhausted has its record written as failed with that classification
\* and failed_items incremented for it.
C5_ExhaustedIsRecorded ==
  \A id \in ItemIds :
    task[id].pc = "failed" =>
      /\ items[id].success = "false"
      /\ items[id].error_type = hist[id].last.error_type
      /\ hist[id].failed >= 1

\* C6: a batch of N >= 1 items in which some items fail permanently and the
\* others succeed reaches Completed with completed_items + failed_items = N:
\* once every item task of the batch has ended (no worker was lost), the batch
\* is Completed.
C6_EndedBatchIsCompleted ==
  \A b \in Batches :
    ( /\ HasJob(b) /\ jobs[b].total_items >= 1
      /\ batch[b].pc = "done"
      /\ lost = 0
      /\ \A id \in ItemsOf(b) :
           id[2] < jobs[b].total_items => task[id].pc \in {"acked", "failed"} )
    => jobs[b].status = COMPLETED /\ Counted(b) = jobs[b].total_items

C8_RetryDelay ==
  \A id \in ItemIds :
    task[id].pc = "queued" /\ task[id].cause # "null" =>
      /\ task[id].cause \in RetryableErrors
      /\ task[id].retries >= 1
      /\ task[id].cause = hist[id].last.error_type
      /\ task[id].cause = RATE_LIMIT => task[id].countdown = 30 * task[id].retries
      /\ task[id].cause = API_ERROR => task[id].countdown = 10

\* the third retry of an item waits 90 seconds after a RateLimited attempt
C8_Witness ==
  \E id \in ItemIds :
    /\ task[id].pc = "queued" /\ task[id].cause = RATE_LIMIT
    /\ task[id].retries = 3 /\ task[id].countdown = 90

Writes(id) == hist[id].completed + hist[id].failed

\* C11: the record of an item is written with outcome fields at most once,
\* whatever the retries and the repeated deliveries of its task, and an item
\* whose task has ended acknowledged has been written exactly once.
C11_WrittenOnce ==
  \A id \in ItemIds :
    /\ Writes(id) <= 1
    /\ task[id].pc = "acked" => Writes(id) = 1

\* C12: a batch of N >= 1 items whose every item succeeded (no execution of an
\* item stored a failure and every item task has ended acknowledged) is
\* Completed with completed_items = N and failed_items = 0.
C12_AllSucceededIsCompleted ==
  \A b \in Batches :
    ( /\ HasJob(b) /\ jobs[b].total_items >= 1
      /\ batch[b].pc = "done"
      /\ \A id \in ItemsOf(b) :
           id[2] < jobs[b].total_items =>
             /\ task[id].pc = "acked"
             /\ hist[id].last.success /\ hist[id].failed = 0 )
    => /\ jobs[b].status = COMPLETED
       /\ jobs[b].completed_items = jobs[b].total_items
       /\ jobs[b].failed_items = 0

\* C13: once a submission of N >= 1 inputs has returned a batch id, a status
\* query for that id finds the batch, and while no item has been written it
\* shows total = N, completed = 0, failed = 0, status Processing.
C13_StatusAfterSubmission ==
  \A b \in Batches :
    response.status_code = 200 /\ response.batch_id = b
      /\ response.item_count >= 1 =>
      LET q == get_batch_status_endpoint(b) IN
      /\ q.status_code = 200
      /\ (\A id \in ItemsOf(b) : Writes(id) = 0) =>
           /\ q.total = response.item_count
           /\ q.completed = 0 /\ q.failed = 0
           /\ q.status = PROCESSING

\* C14: a submission naming a skill that is not in the registry is answered
\* with an error and no batch id, and a process_skill_batch message naming
\* such a skill creates no batch row and no item row and schedules no item
\* task and no notifier check.
C14_UnknownSkillRejected ==
  /\ response.status_code = 400 => response.batch_id = 0
  /\ response.status_code = 200 =>
       /\ response.batch_id \in Batches
       /\ batch[response.batch_id].skill_name \in SKILL_REGISTRY
  /\ \A b \in Batches :
       batch[b].pc # "none" /\ batch[b].skill_name \notin SKILL_REGISTRY =>
         /\ response.batch_id # b
         /\ batch[b].pc \in {"queued", "failed"}
         /\ jobs[b] = NoJob
         /\ notify[b] = NoNotify
         /\ \A id \in ItemsOf(b) : items[id] = NoItem /\ task[id] = NoTask

\* an unregistered skill was refused by an endpoint, and process_skill_batch
\* has raised on a message that names one together with inputs and a callback
C14_Witness ==
  /\ response.status_code = 400
  /\ \E b \in Batches :
       /\ batch[b].pc = "failed" /\ batch[b].skill_name \notin SKILL_REGISTRY
       /\ batch[b].n >= 1 /\ batch[b].webhook_url # "None"

\* C15: no submission endpoint accepts an empty input set: every batch id
\* returned is for at least one input, and no batch of zero inputs is queued
\* or gets a row.
C15_EmptyRejected ==
  /\ response.status_code = 200 => response.item_count >= 1
  /\ \A b \in Batches :
       /\ batch[b].pc # "none" => batch[b].n >= 1
       /\ HasJob(b) => jobs[b].total_items >= 1

\* C16: at most one POST to the webhook is made for a batch, only for a batch
\* submitted with a callback URL and whose status is Completed, and after a
\* POST no notifier check of the batch is left scheduled.
C16_AtMostOneDelivery ==
  \A b \in Batches :
    /\ notify[b].deliveries <= 1
    /\ notify[b].deliveries >= 1 =>
         /\ batch[b].webhook_url # "None"
         /\ jobs[b].status = COMPLETED
         /\ notify[b].pending = 0

\* C17: the payload delivered for a batch carries the final counters of the
\* batch, with completed + failed = total.
C17_PayloadIsFinal ==
  \A b \in Batches :
    notify[b].deliveries >= 1 =>
      /\ notify[b].payload.completed + notify[b].payload.failed
           = notify[b].payload.total
      /\ notify[b].payload.completed = jobs[b].completed_items
      /\ notify[b].payload.failed = jobs[b].failed_items
      /\ notify[b].payload.total = jobs[b].total_items

\* C18: run on a raw input that fails the input schema never calls execute
\* and returns success = False, error_type validation_input, output None,
\* tokens_used 0 and latency_ms 0.
C18_InvalidInput ==
  ~skill.raw_valid /\ skill.pc # "none" =>
    /\ "execute" \notin skill.calls
    /\ skill.pc \in {"start", "returned"}
    /\ skill.pc = "returned" =>
         skill.result = Result(FALSE, "None", VALIDATION_INPUT, 0, 0)

\* run has returned on an invalid input for which execute would have
\* succeeded, after a measurable time
C18_Witness ==
  /\ skill.pc = "returned" /\ ~skill.raw_valid
  /\ skill.execute.success /\ skill.execute.tokens_used > 0
  /\ skill.elapsed > 0
  /\ skill.result.error_type = VALIDATION_INPUT

\* C19: run on a valid input whose execute reports success with an output that
\* fails the output schema returns success = False, error_type
\* validation_output, the raw output of execute, the tokens_used of execute
\* and the latency_ms run stamped on the outcome of execute.
C19_InvalidOutput ==
  ( /\ skill.pc = "returned" /\ skill.raw_valid
    /\ skill.execute.success
    /\ skill.execute.output # "None"
    /\ ~validate_output(skill.execute.output) )
  => /\ ~skill.result.success
     /\ skill.result.error_type = VALIDATION_OUTPUT
     /\ skill.result.output = skill.execute.output
     /\ skill.result.tokens_used = skill.execute.tokens_used
     /\ skill.result.latency_ms = skill.skill_result.latency_ms
     /\ skill.result.latency_ms = skill.elapsed

\* C20: every outcome run returns with success = True has an output that is
\* not None and that validate_output has accepted.
C20_SuccessIsValidated ==
  skill.pc = "returned" /\ skill.result.success =>
    /\ skill.result.output # "None"
    /\ "validate_output" \in skill.calls
    /\ validate_output(skill.result.output)

\* C21: every outcome run of the reference skill returns with success = False
\* has an error_type, every one with success = True has none, and the
\* batch_items row update_batch_item would write for a failed outcome has an
\* error_type.
C21_FailureIsClassified ==
  skill.pc = "returned" =>
    /\ ~skill.result.success => skill.result.error_type \in SkillErrorType
    /\ skill.result.success => skill.result.error_type = "null"
    /\ SkillResult(skill.result.success, skill.result.error_type) \in Outcomes
    /\ LET row == UpdatedItem(BatchItem(TRUE), skill.result) IN
         row.success = "false" => row.error_type \in SkillErrorType

\* run has returned the failure of a provider call that raised an APIError
C21_Witness ==
  /\ skill.pc = "returned" /\ skill.raw_valid
  /\ skill.env.fetch = "ok" /\ skill.env.provider = "APIStatusError"
  /\ ~skill.result.success /\ skill.result.error_type = API_ERROR

\* C22: when the call of the completion provider times out, the outcome run
\* returns is classified timeout, and process_single_item does not retry it.
C22_ProviderTimeoutIsTerminal ==
  ( /\ skill.pc = "returned" /\ skill.raw_valid
    /\ skill.env.fetch = "ok" /\ skill.env.provider = "APITimeoutError" )
  => /\ skill.result.error_type = TIMEOUT
     /\ ~IsRateLimited(skill.result)
     /\ ~IsApiError(skill.result)

\* C23: the text handed to json.loads is the response text, or, when the
\* response starts with a fence, the response without its first line and, if
\* that is a fence too, without its last line; every line that is not a fence
\* reaches the parser.
C23_OnlyFencesStripped ==
  ( /\ skill.pc \in {"validate_output", "returned"} /\ "execute" \in skill.calls
    /\ skill.env.fetch = "ok" /\ skill.env.provider = "ok" )
  => LET text == skill.env.text
         n == Len(text)
         raw_text == skill.raw_text IN
     /\ ~StartsWithFence(text) => raw_text = text
     /\ \/ raw_text = text
        \/ StartsWithFence(text) /\ raw_text = Tail(text)
        \/ /\ StartsWithFence(text) /\ n >= 2 /\ text[n] = "fence"
           /\ raw_text = SubSeq(text, 2, n - 1)
     /\ NonFence(raw_text) = NonFence(text)

\* C24: an item task exists only for a batch whose row (total_items = number
\* of inputs) and whose item rows, one per input, are committed; while no
\* item of the batch has been written the rows are as created (Processing,
\* counters 0, no outcome fields); and update_batch_item finds both rows.
C24_RowsBeforeTasks ==
  \A id \in ItemIds :
    task[id].pc # "none" =>
      LET b == BatchOf(id) IN
      /\ id[2] < batch[b].n
      /\ HasJob(b) /\ jobs[b].total_items = batch[b].n
      /\ \A other \in ItemsOf(b) : other[2] < batch[b].n <=> items[other].exists
      /\ (\A other \in ItemsOf(b) : Writes(other) = 0) =>
           /\ jobs[b] = BatchJob(b, PROCESSING, batch[b].n)
           /\ \A other \in ItemsOf(b) :
                items[other].exists => items[other] = BatchItem(TRUE)
      /\ task[id].pc \in {"incremented", "read", "checked"} =>
           task[id].row.id = b

\* the first item task of a batch of two is inside update_batch_item while
\* the other has not started, and both item rows are as created
C24_Witness ==
  \E id1 \in ItemIds, id2 \in ItemIds :
    /\ id1 # id2 /\ BatchOf(id1) = BatchOf(id2)
    /\ task[id1].pc = "incremented" /\ task[id2].pc = "queued"
    /\ task[id2].retries = 0
    /\ items[id1] = BatchItem(TRUE) /\ items[id2] = BatchItem(TRUE)

\* C25: in every committed state completed_items is the number of item rows
\* of the batch with success = True and failed_items the number with
\* success = False.
C25_CountersMatchRecords ==
  \A b \in Batches :
    HasJob(b) =>
      /\ jobs[b].completed_items =
           Cardinality({id \in ItemsOf(b) : items[id].success = "true"})
      /\ jobs[b].failed_items =
           Cardinality({id \in ItemsOf(b) : items[id].success = "false"})

\* C26: whenever the status of a batch is Completed, every row
\* get_batch_results returns for it has success set and processed_at set.
C26_CompletedResultsAreFinal ==
  \A b \in Batches :
    jobs[b].status = COMPLETED =>
      LET results == get_batch_results(b) IN
      \A id \in DOMAIN results :
        results[id].success # "null" /\ results[id].processed_at
====
